---- MODULE Spec2Model ----
(***************************************************************************)
(* A model of src/main.py: the try-on API's Lambda router and its eight    *)
(* handlers, over three DynamoDB tables (profiles, cart items, fits), the  *)
(* S3 presigner and a clock.                                               *)
(*                                                                         *)
(* Every handler invocation is independent (stateless Lambda); the shared  *)
(* state is the three tables.  Handlers that issue one store operation are *)
(* one action.  cart_post_handler reads the clock and then writes, and     *)
(* fit_create_handler writes up to three times, so those two are modelled  *)
(* as one step per store operation, with the invocation's locals kept in a *)
(* slot of procs between the steps; steps of different invocations         *)
(* interleave.                                                             *)
(*                                                                         *)
(* A store operation either takes effect and returns, or raises            *)
(* botocore ClientError and has no effect.  A presigner call either        *)
(* returns a URL, or raises ClientError, or raises an exception that is    *)
(* no ClientError: generate_presigned_url signs locally, and what it       *)
(* raises when it cannot (no credentials, an invalid parameter such as an  *)
(* unset bucket) derives from BotoCoreError.                               *)
(***************************************************************************)
EXTENDS Integers, Sequences, FiniteSets, TLC

(***************************************************************************)
(* Bounds of the model.                                                    *)
(***************************************************************************)
MaxTime == 1      \* the clock runs over 0..MaxTime
MaxUuid == 2      \* at most this many uuid4() values are drawn
MaxReq  == 2      \* at most this many handler invocations are started
MaxPage == 2      \* the store returns at most this many items per query page
MaxListed == 22   \* a user owns at most this many fit jobs when listing them

(***************************************************************************)
(* Values.                                                                 *)
(***************************************************************************)
Users == {"u1", "u2"}

\* Strings whose characters matter (retailer, productId, item_key) are
\* sequences of one-character strings, so that f"{a}#{b}" is concatenation.
\* (retailer, productId) pairs; the last two differ and share an item_key.
CartProducts ==
    {<<(<<"a">>), (<<"c">>)>>,
     <<(<<"a", "#", "b">>), (<<"c">>)>>,
     <<(<<"a">>), (<<"b", "#", "c">>)>>}
Prices == {1499, 1999}

Procs == {1, 2}

\* The result of a Python expression: a value, or a raised exception.
Ok(v)      == [exc |-> "none", val |-> v]
Raise(e)   == [exc |-> e]

(***************************************************************************)
(* The verified-claims part of an event.  event['requestContext']          *)
(* ['authorizer']['claims']['sub'] either yields the caller's id, or a key *)
(* on the path is absent (KeyError), or an element on the path is not a    *)
(* mapping, e.g. "authorizer": null (TypeError).                           *)
(***************************************************************************)
Claims ==
    {[kind |-> "sub", sub |-> u] : u \in Users}
        \cup {[kind |-> "absent"], [kind |-> "malformed"]}

AuthClaims == {c \in Claims : c.kind = "sub"}

get_user_id(event) ==
    CASE event.claims.kind = "sub"       -> Ok(event.claims.sub)
      [] event.claims.kind = "absent"    -> Raise("ValueError")
      [] event.claims.kind = "malformed" -> Raise("TypeError")

(***************************************************************************)
(* The response envelope.  The body is kept as the structure that          *)
(* json.dumps serialises.                                                  *)
(***************************************************************************)
default_headers ==
    [ContentType |-> "application/json",
     AccessControlAllowOrigin  |-> "*",
     AccessControlAllowHeaders |-> "Content-Type,Authorization",
     AccessControlAllowMethods |-> "GET,POST,PUT,DELETE,OPTIONS"]

create_response(status_code, body) ==
    [statusCode |-> status_code, headers |-> default_headers, body |-> body]

\* The text json.dumps makes of a body that is an object: its members
\* between braces; for the object without members, the two characters "{}".
json_dumps(body) ==
    IF DOMAIN body = {} THEN <<"{", "}">> ELSE <<"{", body, "}">>

create_error_response(status_code, error_type, message) ==
    create_response(status_code, [error |-> error_type, message |-> message])

\* The except clauses that close every authenticated handler:
\* ValueError -> 401, ClientError -> 500 <store_error>, anything else -> 500.
handler_except(exc, store_error, store_message) ==
    CASE exc = "ValueError"  ->
            create_error_response(401, "UNAUTHORIZED",
                                  <<"User ID not found in request context">>)
      [] exc = "ClientError" ->
            create_error_response(500, store_error, <<store_message>>)
      [] OTHER ->
            create_error_response(500, "INTERNAL_ERROR",
                                  <<"An unexpected error occurred">>)

(***************************************************************************)
(* State.                                                                  *)
(***************************************************************************)
VARIABLES
    profiles,   \* PROFILES_TABLE: a set of items, key user_id
    cart,       \* CART_ITEMS_TABLE: a set of items, key (user_id, item_key)
    fits,       \* FITS_TABLE: a set of items, key fitId
    now,        \* the clock get_current_timestamp() reads
    uuids,      \* how many fit ids uuid4() has produced
    procs,      \* the invocations between two store operations
    last,       \* the invocation that returned last: event and response
    everReady,  \* history: the fit ids whose status has been READY
    cartHist,   \* history: first and latest landed POST /cart per product
    nreq,       \* invocations started
    request,    \* httpMethod and resource of the invocation started last
    replaced    \* history: the profile items a later put_item replaced

vars == <<profiles, cart, fits, now, uuids, procs, last, everReady,
          cartHist, nreq, request, replaced>>

tables == <<profiles, cart, fits>>

get_current_timestamp == now

Idle == [pc |-> "idle"]

NoHist == [n |-> 0]

CartHistKeys == Users \X CartProducts

Init ==
    /\ profiles = {}
    /\ cart = {}
    /\ fits = {}
    /\ now = 0
    /\ uuids = 0
    /\ procs = [p \in Procs |-> Idle]
    /\ last = [handler |-> "none", event |-> [claims |-> [kind |-> "absent"]],
               response |-> create_response(0, [ok |-> FALSE]),
               store_ops |-> <<>>, url_ops |-> <<>>]
    /\ everReady = {}
    /\ cartHist = [k \in CartHistKeys |-> NoHist]
    /\ nreq = 0
    /\ request = [httpMethod |-> "none", resource |-> "none"]
    /\ replaced = {}

\* The clock advances between any two steps.
Tick ==
    /\ now < MaxTime
    /\ now' = now + 1
    /\ UNCHANGED <<profiles, cart, fits, uuids, procs, last, everReady,
                   cartHist, nreq, request, replaced>>

\* What a returning invocation leaves in last.  store_ops and url_ops list
\* the store and presigner calls the invocation issued, in order.
Return(handler, event, response, store_ops, url_ops) ==
    last' = [handler |-> handler, event |-> event,
             response |-> response, store_ops |-> store_ops, url_ops |-> url_ops]

ActorOf(event) ==
    IF event.claims.kind = "sub" THEN event.claims.sub ELSE "none"

\* History: the fit ids that are READY in `table` join everReady.
EverReadyAfter(table) ==
    everReady \cup {r.fitId : r \in {x \in table : x.status = "READY"}}

\* str(uuid.uuid4()): a value no earlier call returned.
uuid4 == [uuid |-> uuids + 1]

(***************************************************************************)
(* The record store.  put_item replaces the item with the same key.        *)
(***************************************************************************)
SameKey(r, item, key) == \A a \in key : r[a] = item[a]

\* A faulty variant of put_item, to try the properties on: the attributes
\* of the item that was there and that the new item lacks are kept.
put_item_merging(table, item, key) ==
    LET hit == {r \in table : SameKey(r, item, key)}
        old == IF hit = {} THEN item ELSE CHOOSE r \in hit : TRUE
    IN  (table \ hit)
            \cup {[a \in DOMAIN old \cup DOMAIN item |->
                      IF a \in DOMAIN item THEN item[a] ELSE old[a]]}

put_item(table, item, key) ==
    {r \in table : ~SameKey(r, item, key)} \cup {item}

\* A faulty variant of update_item, to try the properties on: if_not_exists
\* is taken for a plain SET.
update_item_overwriting(table, key, set, if_not_exists) ==
    LET hit == {r \in table : SameKey(r, key, DOMAIN key)}
        old == IF hit = {} THEN key ELSE CHOOSE r \in hit : TRUE
        new == [a \in DOMAIN old \cup DOMAIN set \cup DOMAIN if_not_exists |->
                   IF a \in DOMAIN set THEN set[a]
                   ELSE IF a \in DOMAIN if_not_exists THEN if_not_exists[a]
                   ELSE old[a]]
    IN  (table \ hit) \cup {new}

\* UpdateItem "SET a = :v, ..., b = if_not_exists(b, :w)" on the item with
\* key `key` (a record of the key attributes); an absent item is created.
update_item(table, key, set, if_not_exists) ==
    LET hit == {r \in table : SameKey(r, key, DOMAIN key)}
        old == IF hit = {} THEN key ELSE CHOOSE r \in hit : TRUE
        new == [a \in DOMAIN old \cup DOMAIN set \cup DOMAIN if_not_exists |->
                   IF a \in DOMAIN set THEN set[a]
                   ELSE IF a \in DOMAIN old THEN old[a]
                   ELSE if_not_exists[a]]
    IN  (table \ hit) \cup {new}

\* What s3_client.generate_presigned_url can do.
PresignOutcomes == {"url", "ClientError", "BotoCoreError"}

(***************************************************************************)
(* The router.  lambda_handler reads event['httpMethod'] and               *)
(* event['resource'], answers OPTIONS itself, and walks an if/elif chain   *)
(* over (resource, method) that calls one handler or answers 404.  The     *)
(* action of a handler below is its call from that chain: Routed(h) says   *)
(* that this invocation's method and resource make the chain reach h.      *)
(***************************************************************************)
Methods == {"GET", "POST", "OPTIONS", "DELETE"}

Resources == {"/upload-url", "/profile", "/cart", "/fit", "/fit/{fitId}",
              "/fits", "/token", "/other"}

\* A faulty variant of is_preflight, to try the properties on: OPTIONS is
\* not recognised.
is_preflight_never(method) == FALSE

is_preflight(method) == method = "OPTIONS"

\* A faulty variant of route, to try the properties on: the chain tests the
\* resource only.
route_by_resource(method, resource) ==
    CASE resource = "/upload-url"  -> "upload_url_handler"
      [] resource = "/profile"     -> "profile_handler"
      [] resource = "/cart"        -> IF method = "POST" THEN "cart_post_handler"
                                      ELSE "cart_get_handler"
      [] resource = "/fit"         -> "fit_create_handler"
      [] resource = "/fit/{fitId}" -> "fit_get_handler"
      [] resource = "/fits"        -> "fits_list_handler"
      [] resource = "/token"       -> "token_handler"
      [] OTHER -> "NOT_FOUND"

\* The if/elif chain: the handler called, or "NOT_FOUND" for the else branch.
route(method, resource) ==
    CASE resource = "/upload-url"  /\ method = "GET"  -> "upload_url_handler"
      [] resource = "/profile"     /\ method = "POST" -> "profile_handler"
      [] resource = "/cart"        /\ method = "POST" -> "cart_post_handler"
      [] resource = "/cart"        /\ method = "GET"  -> "cart_get_handler"
      [] resource = "/fit"         /\ method = "POST" -> "fit_create_handler"
      [] resource = "/fit/{fitId}" /\ method = "GET"  -> "fit_get_handler"
      [] resource = "/fits"        /\ method = "GET"  -> "fits_list_handler"
      [] resource = "/token"       /\ method = "POST" -> "token_handler"
      [] OTHER -> "NOT_FOUND"

Routed(handler) ==
    \E method \in Methods, resource \in Resources :
        /\ ~is_preflight(method)
        /\ route(method, resource) = handler
        /\ request' = [httpMethod |-> method, resource |-> resource]

(***************************************************************************)
(* 1. GET /upload-url                                                      *)
(***************************************************************************)
ImageTypes == {"face", "body", "other"}

UploadEvents ==
    {[claims |-> c, queryStringParameters |-> q] :
        c \in AuthClaims,
        q \in {[none |-> TRUE]} \cup {[type |-> t] : t \in ImageTypes \cup {"hat"}}}
    \cup {[claims |-> c, queryStringParameters |-> [type |-> "face"]] :
            c \in Claims \ AuthClaims}

\* presign is what s3_client.generate_presigned_url did.
upload_url_response(event, presign) ==
    LET uid == get_user_id(event)
        q   == event.queryStringParameters
    IN  IF uid.exc # "none"
        THEN [response |-> handler_except(uid.exc, "S3_ERROR", "Failed to generate upload URL"),
              url_ops |-> <<>>, drew |-> FALSE]
        ELSE IF "type" \notin DOMAIN q \/ q.type \notin ImageTypes
        THEN [response |-> create_error_response(400, "INVALID_PARAMETER",
                              <<"type parameter must be one of: face, body, other">>),
              url_ops |-> <<>>, drew |-> FALSE]
        ELSE LET object_key == <<"uploads", uid.val, q.type, uuid4>>
                 op == [op |-> "put_object", Key |-> object_key, ExpiresIn |-> 300]
             IN  IF presign = "url"
                 THEN [response |-> create_response(200,
                                       [url |-> [signed |-> op], key |-> object_key]),
                       url_ops |-> <<op>>, drew |-> TRUE]
                 ELSE [response |-> handler_except(presign, "S3_ERROR",
                                                   "Failed to generate upload URL"),
                       url_ops |-> <<op>>, drew |-> TRUE]

upload_url_handler ==
    \E event \in UploadEvents, presign \in PresignOutcomes :
        LET r == upload_url_response(event, presign)
        IN  /\ nreq < MaxReq
            /\ Routed("upload_url_handler")
            /\ r.drew => uuids < MaxUuid
            /\ nreq' = nreq + 1
            /\ uuids' = IF r.drew THEN uuids + 1 ELSE uuids
            /\ Return("upload_url_handler", event, r.response, <<>>, r.url_ops)
            /\ UNCHANGED <<profiles, cart, fits, now, procs, everReady, cartHist,
                           replaced>>

(***************************************************************************)
(* 2. POST /profile                                                        *)
(***************************************************************************)
\* JSON values: a number is [num |-> n], a string is [str |-> s].
Num(n) == [num |-> n]
Str(s) == [str |-> s]

isinstance_number(value) == "num" \in DOMAIN value

\* A JSON object with one member removed, and with one member set.
Without(obj, field) == [g \in DOMAIN obj \ {field} |-> obj[g]]
With(obj, field, value) == [g \in DOMAIN obj \cup {field} |->
                               IF g = field THEN value ELSE obj[g]]

profile_required_fields ==
    <<"height_cm", "weight_kg", "chest_cm", "waist_cm", "hips_cm", "inseam_cm">>

GoodMeasurements ==
    [f \in {profile_required_fields[i] : i \in 1..Len(profile_required_fields)}
        |-> Num(150)]

\* The objects POST /profile is tried with: two valid ones that differ in
\* preferred_fit and avatar_key, and one for each way the validation fails,
\* two of them with one field absent and another out of range.
ProfileObjects ==
    LET slim == With(GoodMeasurements, "preferred_fit", Str("slim"))
    IN  {slim,
         With(With(GoodMeasurements, "preferred_fit", Str("loose")),
              "avatar_key", Str("k1")),
         Without(slim, "height_cm"),
         With(slim, "chest_cm", Num(0)),
         With(slim, "inseam_cm", Num(301)),
         With(slim, "waist_cm", Str("wide")),
         With(Without(slim, "hips_cm"), "height_cm", Num(0)),
         With(Without(slim, "height_cm"), "chest_cm", Num(0)),
         GoodMeasurements}

\* event['body']: [json |-> FALSE] does not parse; otherwise obj is the object.
ProfileEvents ==
    {[claims |-> c, body |-> [json |-> TRUE, obj |-> o]] :
        c \in AuthClaims, o \in ProfileObjects}
    \cup {[claims |-> c, body |-> [json |-> FALSE]] : c \in AuthClaims}
    \cup {[claims |-> c, body |-> [json |-> TRUE, obj |-> GoodMeasurements]] :
            c \in Claims \ AuthClaims}

\* The validation loop of profile_handler from field i on, then preferred_fit:
\* [ok |-> TRUE], or the 400 response the handler returns.
RECURSIVE profile_validate_from(_, _)
profile_validate_from(body, i) ==
    IF i > Len(profile_required_fields)
    THEN IF "preferred_fit" \notin DOMAIN body
         THEN [ok |-> FALSE, response |->
                  create_error_response(400, "MISSING_FIELD",
                      <<"Required field missing: ", "preferred_fit">>)]
         ELSE [ok |-> TRUE]
    ELSE LET field == profile_required_fields[i]
         IN  IF field \notin DOMAIN body
             THEN [ok |-> FALSE, response |->
                      create_error_response(400, "MISSING_FIELD",
                          <<"Required field missing: ", field>>)]
             ELSE IF \/ ~isinstance_number(body[field])
                     \/ body[field].num <= 0
                     \/ body[field].num > 300
             THEN [ok |-> FALSE, response |->
                      create_error_response(400, "INVALID_VALUE",
                          <<field, " must be a positive number less than 300">>)]
             ELSE profile_validate_from(body, i + 1)

\* A faulty variant of profile_validate, to try the properties on: only the
\* presence of the fields is checked.
profile_validate_presence_only(body) ==
    LET absent == {i \in 1..Len(profile_required_fields) :
                      profile_required_fields[i] \notin DOMAIN body}
    IN  IF absent # {}
        THEN [ok |-> FALSE, response |->
                 create_error_response(400, "MISSING_FIELD",
                     <<"Required field missing: ",
                       profile_required_fields[CHOOSE i \in absent :
                                                  \A j \in absent : i <= j]>>)]
        ELSE IF "preferred_fit" \notin DOMAIN body
        THEN [ok |-> FALSE, response |->
                 create_error_response(400, "MISSING_FIELD",
                     <<"Required field missing: ", "preferred_fit">>)]
        ELSE [ok |-> TRUE]

profile_validate(body) == profile_validate_from(body, 1)

profile_data_of(user_id, body, ts) ==
    LET base == [f \in {"user_id", "height_cm", "weight_kg", "chest_cm", "waist_cm",
                        "hips_cm", "inseam_cm", "preferred_fit", "updatedAt"} |->
                    CASE f = "user_id"   -> user_id
                      [] f = "updatedAt" -> ts
                      [] OTHER           -> body[f]]
    IN  IF "avatar_key" \in DOMAIN body
        THEN With(base, "avatar_key", body["avatar_key"])
        ELSE base

\* A faulty variant of profile_rejected, to try the properties on: the item
\* is written before the request is validated.
profile_rejected_after_write(event, response) ==
    [response |-> response,
     profiles |-> put_item(profiles,
                           [user_id |-> ActorOf(event),
                            updatedAt |-> get_current_timestamp],
                           {"user_id"}),
     store_ops |-> <<>>]

\* A return before the store is reached: the table is as it was.
profile_rejected(event, response) ==
    [response |-> response, profiles |-> profiles, store_ops |-> <<>>]

\* fault: table.put_item raised ClientError.
profile_result(event, fault) ==
    LET uid == get_user_id(event)
    IN  IF uid.exc # "none"
        THEN profile_rejected(event,
                 handler_except(uid.exc, "DYNAMODB_ERROR", "Failed to save profile"))
        ELSE IF ~event.body.json
        THEN profile_rejected(event,
                 create_error_response(400, "INVALID_JSON",
                                       <<"Request body must be valid JSON">>))
        ELSE LET v == profile_validate(event.body.obj)
             IN  IF ~v.ok
                 THEN profile_rejected(event, v.response)
                 ELSE LET profile_data ==
                              profile_data_of(uid.val, event.body.obj, get_current_timestamp)
                          op == [op |-> "put_item", table |-> "profiles",
                                 user_id |-> uid.val, ok |-> ~fault]
                      IN  IF fault
                          THEN [response |-> handler_except("ClientError", "DYNAMODB_ERROR",
                                                            "Failed to save profile"),
                                profiles |-> profiles, store_ops |-> <<op>>]
                          ELSE [response |-> create_response(200,
                                                [ok |-> TRUE, profile |-> profile_data]),
                                profiles |-> put_item(profiles, profile_data, {"user_id"}),
                                store_ops |-> <<op>>]

profile_handler ==
    \E event \in ProfileEvents, fault \in BOOLEAN :
        LET r == profile_result(event, fault)
        IN  /\ nreq < MaxReq
            /\ Routed("profile_handler")
            /\ nreq' = nreq + 1
            /\ profiles' = r.profiles
            /\ replaced' = replaced \cup (profiles \ r.profiles)
            /\ Return("profile_handler", event, r.response, r.store_ops, <<>>)
            /\ UNCHANGED <<cart, fits, now, uuids, procs, everReady, cartHist>>

(***************************************************************************)
(* 3. POST /cart                                                           *)
(***************************************************************************)
cart_required_fields ==
    <<"retailer", "productId", "title", "price_cents", "currency",
      "productUrl", "imageUrl", "selectedSize", "color", "category">>

CartObject(product, price) ==
    [f \in {cart_required_fields[i] : i \in 1..Len(cart_required_fields)} |->
        CASE f = "retailer"    -> Str(product[1])
          [] f = "productId"   -> Str(product[2])
          [] f = "price_cents" -> price
          [] OTHER             -> Str(f)]

CartObjects ==
    LET good == CartObject(<<(<<"a">>), (<<"c">>)>>, Num(1999))
    IN  {CartObject(c, Num(n)) : c \in CartProducts, n \in Prices}
        \cup {Without(good, "retailer"), Without(good, "category"),
              With(good, "price_cents", Num(-1)),
              With(good, "price_cents", Str("cheap"))}

CartPostEvents ==
    {[claims |-> c, body |-> [json |-> TRUE, obj |-> o]] :
        c \in AuthClaims, o \in CartObjects}
    \cup {[claims |-> c, body |-> [json |-> FALSE]] : c \in AuthClaims}
    \cup {[claims |-> c, body |-> [json |-> TRUE,
                                   obj |-> CHOOSE o \in CartObjects : TRUE]] :
            c \in Claims \ AuthClaims}

\* The presence loop of cart_post_handler from field i on, then the
\* price_cents check: [ok |-> TRUE], or the 400 response.
RECURSIVE cart_validate_from(_, _)
cart_validate_from(body, i) ==
    IF i > Len(cart_required_fields)
    THEN IF \/ ~isinstance_number(body["price_cents"])
            \/ body["price_cents"].num < 0
         THEN [ok |-> FALSE, response |->
                  create_error_response(400, "INVALID_VALUE",
                      <<"price_cents must be a non-negative number">>)]
         ELSE [ok |-> TRUE]
    ELSE IF cart_required_fields[i] \notin DOMAIN body
         THEN [ok |-> FALSE, response |->
                  create_error_response(400, "MISSING_FIELD",
                      <<"Required field missing: ", cart_required_fields[i]>>)]
         ELSE cart_validate_from(body, i + 1)

cart_validate(body) == cart_validate_from(body, 1)

\* f"{body['retailer']}#{body['productId']}"
item_key_of(body) == body["retailer"].str \o <<"#">> \o body["productId"].str

\* A faulty variant of cart_update_item, to try the properties on: the
\* attribute given if_not_exists is updatedAt instead of addedAt.
cart_update_item_swapped(table, user_id, item_key, body, current_time) ==
    update_item(table,
                [user_id |-> user_id, item_key |-> item_key],
                With([f \in {cart_required_fields[i] :
                                i \in 1..Len(cart_required_fields)} |-> body[f]],
                     "addedAt", current_time),
                [updatedAt |-> current_time])

\* The table.update_item call of cart_post_handler.
cart_update_item(table, user_id, item_key, body, current_time) ==
    update_item(table,
                [user_id |-> user_id, item_key |-> item_key],
                With([f \in {cart_required_fields[i] :
                                i \in 1..Len(cart_required_fields)} |-> body[f]],
                     "updatedAt", current_time),
                [addedAt |-> current_time])

\* Up to the store call: 401, 400, or the locals with which update_item
\* will be called.
cart_post_begin(event) ==
    LET uid == get_user_id(event)
    IN  IF uid.exc # "none"
        THEN [done |-> TRUE, response |->
                 handler_except(uid.exc, "DYNAMODB_ERROR", "Failed to save cart item")]
        ELSE IF ~event.body.json
        THEN [done |-> TRUE, response |->
                 create_error_response(400, "INVALID_JSON",
                                       <<"Request body must be valid JSON">>)]
        ELSE LET v == cart_validate(event.body.obj)
             IN  IF ~v.ok
                 THEN [done |-> TRUE, response |-> v.response]
                 ELSE [done |-> FALSE,
                       locals |-> [pc |-> "cart_update_item",
                                   event |-> event,
                                   user_id |-> uid.val,
                                   body |-> event.body.obj,
                                   item_key |-> item_key_of(event.body.obj),
                                   current_time |-> get_current_timestamp]]

\* An invocation starts in the lowest idle slot.
FreeSlot(p) ==
    /\ procs[p] = Idle
    /\ \A q \in Procs : q < p => procs[q] # Idle

cart_post_handler ==
    \E event \in CartPostEvents, p \in Procs :
        LET b == cart_post_begin(event)
        IN  /\ nreq < MaxReq
            /\ Routed("cart_post_handler")
            /\ nreq' = nreq + 1
            /\ IF b.done
               THEN /\ p = 1
                    /\ Return("cart_post_handler", event, b.response, <<>>, <<>>)
                    /\ UNCHANGED procs
               ELSE /\ FreeSlot(p)
                    /\ procs' = [procs EXCEPT ![p] = b.locals]
                    /\ UNCHANGED last
            /\ UNCHANGED <<profiles, cart, fits, now, uuids, everReady, cartHist,
                           replaced>>

CartHistAfter(l) ==
    LET k    == <<l.user_id, <<l.body["retailer"].str, l.body["productId"].str>> >>
        old  == cartHist[k]
    IN  [cartHist EXCEPT ![k] =
            [n |-> 1,
             first |-> IF old.n = 0 THEN l.current_time ELSE old.first,
             price_cents |-> l.body["price_cents"],
             updatedAt |-> l.current_time]]

\* fault: table.update_item raised ClientError.
cart_post_write ==
    \E p \in Procs, fault \in BOOLEAN :
        LET l  == procs[p]
            op == [op |-> "update_item", table |-> "cart",
                   user_id |-> l.user_id, item_key |-> l.item_key, ok |-> ~fault]
        IN  /\ l.pc = "cart_update_item"
            /\ procs' = [procs EXCEPT ![p] = Idle]
            /\ IF fault
               THEN /\ Return("cart_post_handler", l.event,
                              handler_except("ClientError", "DYNAMODB_ERROR",
                                             "Failed to save cart item"),
                              <<op>>, <<>>)
                    /\ UNCHANGED <<cart, cartHist>>
               ELSE /\ cart' = cart_update_item(cart, l.user_id, l.item_key,
                                                l.body, l.current_time)
                    /\ cartHist' = CartHistAfter(l)
                    /\ Return("cart_post_handler", l.event,
                              create_response(200, [ok |-> TRUE]), <<op>>, <<>>)
            /\ UNCHANGED <<profiles, fits, now, uuids, everReady, nreq, request,
                           replaced>>

(***************************************************************************)
(* 4. GET /cart                                                            *)
(***************************************************************************)
\* Byte order of the characters used, as DynamoDB sorts string sort keys.
ord(c) == CASE c = "#" -> 35 [] c = "a" -> 97 [] c = "b" -> 98 [] c = "c" -> 99

RECURSIVE str_less(_, _)
str_less(s, t) ==
    IF t = <<>> THEN FALSE
    ELSE IF s = <<>> THEN TRUE
    ELSE IF ord(Head(s)) # ord(Head(t)) THEN ord(Head(s)) < ord(Head(t))
    ELSE str_less(Tail(s), Tail(t))

ItemKeys == {c[1] \o <<"#">> \o c[2] : c \in CartProducts}

\* The items of a partition in ascending item_key order.
RECURSIVE by_item_key(_)
by_item_key(items) ==
    IF items = {} THEN <<>>
    ELSE LET first == CHOOSE r \in items :
                         \A o \in items \ {r} : str_less(r.item_key, o.item_key)
         IN  <<first>> \o by_item_key(items \ {first})

\* base64.b64encode(json.dumps(key).encode()).decode() and its inverse.  A
\* cursor is [b64 |-> [json |-> key]], or a string [raw |-> s] that is no
\* base64 of JSON.
encode_cursor(key) == [b64 |-> [json |-> key]]

decode_cursor(cursor) ==
    IF "b64" \in DOMAIN cursor /\ "json" \in DOMAIN cursor.b64
    THEN Ok(cursor.b64.json)
    ELSE Raise("Exception")

CartKeys == {[user_id |-> u, item_key |-> k] : u \in Users, k \in ItemKeys}

CartGetEvents ==
    {[claims |-> c, queryStringParameters |-> q] :
        c \in AuthClaims,
        q \in {[none |-> TRUE], [cursor |-> [raw |-> ""]], [cursor |-> [raw |-> "zz"]]}
              \cup {[cursor |-> encode_cursor(k)] : k \in CartKeys}}
    \cup {[claims |-> c, queryStringParameters |-> [none |-> TRUE]] :
            c \in Claims \ AuthClaims}

\* table.query(KeyConditionExpression='user_id = :user_id'
\*             [, ExclusiveStartKey=start]) answering a page of at most
\* `page` items.  start is [none |-> TRUE] or a key; a start key of another
\* partition is rejected by the store (ValidationException, a ClientError).
cart_query(table, user_id, start, page) ==
    IF "user_id" \in DOMAIN start /\ start.user_id # user_id
    THEN Raise("ClientError")
    ELSE LET part  == {r \in table : r.user_id = user_id}
             after == IF "item_key" \in DOMAIN start
                      THEN {r \in part : str_less(start.item_key, r.item_key)}
                      ELSE part
             all   == by_item_key(after)
             items == SubSeq(all, 1, IF Len(all) < page THEN Len(all) ELSE page)
         IN  Ok(IF Len(all) > page
                THEN [Items |-> items,
                      LastEvaluatedKey |->
                          [user_id |-> user_id, item_key |-> items[Len(items)].item_key]]
                ELSE [Items |-> items])

\* An item as the boto3 resource layer hands it to the handler: a number
\* attribute of the store comes back as decimal.Decimal.  price_cents is the
\* one number attribute of a cart item (the timestamps are ISO strings).
cart_item_from_store(item) ==
    [item EXCEPT !.price_cents = [decimal |-> @.num]]

\* json.dumps(body) of create_response, called without default=: it raises
\* TypeError on a Decimal.
json_dumps_raises(items) ==
    \E i \in 1..Len(items) : "decimal" \in DOMAIN items[i].price_cents

\* fault: table.query raised ClientError; page: the size of the store's page.
cart_get_result(event, fault, page) ==
    LET uid == get_user_id(event)
        q   == event.queryStringParameters
        cursor_given == "cursor" \in DOMAIN q /\ q.cursor # [raw |-> ""]
        decoded == IF cursor_given THEN decode_cursor(q.cursor) ELSE Ok([none |-> TRUE])
    IN  IF uid.exc # "none"
        THEN [response |-> handler_except(uid.exc, "DYNAMODB_ERROR",
                                          "Failed to retrieve cart items"),
              store_ops |-> <<>>]
        ELSE IF decoded.exc # "none"
        THEN [response |-> create_error_response(400, "INVALID_CURSOR",
                                                 <<"Invalid pagination cursor">>),
              store_ops |-> <<>>]
        ELSE LET op0 == [op |-> "query", table |-> "cart", user_id |-> uid.val,
                         ExclusiveStartKey |-> decoded.val, ok |-> TRUE]
                 res == IF fault THEN Raise("ClientError")
                        ELSE cart_query(cart, uid.val, decoded.val, page)
                 op  == [op0 EXCEPT !.ok = (res.exc = "none")]
             IN  IF res.exc # "none"
                 THEN [response |-> handler_except(res.exc, "DYNAMODB_ERROR",
                                                   "Failed to retrieve cart items"),
                       store_ops |-> <<op>>]
                 ELSE LET items == [i \in 1..Len(res.val.Items) |->
                                       cart_item_from_store(res.val.Items[i])]
                      IN  IF json_dumps_raises(items)
                          THEN [response |-> handler_except("TypeError", "DYNAMODB_ERROR",
                                                 "Failed to retrieve cart items"),
                                store_ops |-> <<op>>]
                          ELSE [response |-> create_response(200,
                                   [items |-> items,
                                    nextCursor |->
                                        IF "LastEvaluatedKey" \in DOMAIN res.val
                                        THEN encode_cursor(res.val.LastEvaluatedKey)
                                        ELSE [null |-> TRUE]]),
                                store_ops |-> <<op>>]

cart_get_handler ==
    \E event \in CartGetEvents, fault \in BOOLEAN, page \in 1..MaxPage :
        LET r == cart_get_result(event, fault, page)
        IN  /\ nreq < MaxReq
            /\ Routed("cart_get_handler")
            /\ nreq' = nreq + 1
            /\ Return("cart_get_handler", event, r.response, r.store_ops, <<>>)
            /\ UNCHANGED <<profiles, cart, fits, now, uuids, procs, everReady, cartHist,
                           replaced>>

(***************************************************************************)
(* 5. POST /fit                                                            *)
(***************************************************************************)
\* JSON values: a list is [list |-> <<...>>], an object inside a list is
\* [obj |-> f]; the request object itself is the function f.
List(seq)   == [list |-> seq]
Object(f)   == [obj |-> f]

isinstance_list(value) == "list" \in DOMAIN value
isinstance_dict(value) == "obj" \in DOMAIN value

FitItem == Object([retailer |-> Str(<<"a">>), productId |-> Str(<<"c">>)])

FitObjects ==
    LET mvp == [items |-> List(<<FitItem>>), mode |-> Str("MVP_COMPOSITE")]
    IN  {mvp,
         [items |-> List(<<>>), mode |-> Str("MVP_COMPOSITE")],
         [items |-> List(<<FitItem>>), mode |-> Str("BEDROCK"),
          name |-> Str("look"), body_asset_key |-> Str("k2")],
         Without(mvp, "items"),
         With(mvp, "items", Str("shirt")),
         Without(mvp, "mode"),
         With(mvp, "mode", Str("FAST")),
         With(mvp, "items", List(<<FitItem, Object([retailer |-> Str(<<"a">>)])>>)),
         With(mvp, "items", List(<<Str("shirt")>>))}

FitCreateEvents ==
    {[claims |-> c, body |-> [json |-> TRUE, obj |-> o]] :
        c \in AuthClaims, o \in FitObjects}
    \cup {[claims |-> c, body |-> [json |-> FALSE]] : c \in AuthClaims}
    \cup {[claims |-> c, body |-> [json |-> TRUE,
                                   obj |-> CHOOSE o \in FitObjects : TRUE]] :
            c \in Claims \ AuthClaims}

\* The validation of fit_create_handler: [ok |-> TRUE], or the 400 response.
fit_validate(body) ==
    IF "items" \notin DOMAIN body \/ ~isinstance_list(body["items"])
    THEN [ok |-> FALSE, response |->
             create_error_response(400, "MISSING_FIELD", <<"items array is required">>)]
    ELSE IF \/ "mode" \notin DOMAIN body
            \/ body["mode"] \notin {Str("MVP_COMPOSITE"), Str("BEDROCK")}
    THEN [ok |-> FALSE, response |->
             create_error_response(400, "INVALID_MODE",
                                   <<"mode must be MVP_COMPOSITE or BEDROCK">>)]
    ELSE IF \E i \in 1..Len(body["items"].list) :
               LET item == body["items"].list[i]
               IN  \/ ~isinstance_dict(item)
                   \/ "retailer" \notin DOMAIN item.obj
                   \/ "productId" \notin DOMAIN item.obj
    THEN [ok |-> FALSE, response |->
             create_error_response(400, "INVALID_ITEMS",
                                   <<"Each item must have retailer and productId">>)]
    ELSE [ok |-> TRUE]

fit_data_of(fit_id, user_id, body, ts) ==
    LET base == [fitId |-> fit_id, user_id |-> user_id, items |-> body["items"],
                 mode |-> body["mode"], status |-> "PENDING",
                 createdAt |-> ts, updatedAt |-> ts]
        named == IF "name" \in DOMAIN body
                 THEN With(base, "name", body["name"]) ELSE base
    IN  IF "body_asset_key" \in DOMAIN body
        THEN With(named, "body_asset_key", body["body_asset_key"]) ELSE named

\* The first table.put_item of the handler's item.
fit_put_item(table, fit_data) == put_item(table, fit_data, {"fitId"})

\* f"generated/{user_id}/{fit_id}.jpg"
generated_key_of(user_id, fit_id) ==
    [prefix |-> "generated", user_id |-> user_id, id |-> fit_id, suffix |-> ".jpg"]

\* A faulty variant of fit_update_failed, to try the properties on: the
\* update expression of the READY update, with the status changed.
fit_update_failed_with_image(table, fit_id, ts) ==
    update_item(table, [fitId |-> fit_id],
                [status |-> "FAILED", imageUrl |-> generated_key_of("", fit_id),
                 updatedAt |-> ts],
                <<>>)

\* The update_item of the try block, and the one of its except block.
fit_update_ready(table, fit_id, generated_key, ts) ==
    update_item(table, [fitId |-> fit_id],
                [status |-> "READY", imageUrl |-> generated_key, updatedAt |-> ts],
                <<>>)

fit_update_failed(table, fit_id, ts) ==
    update_item(table, [fitId |-> fit_id],
                [status |-> "FAILED", updatedAt |-> ts], <<>>)

\* A faulty variant of mode_is_bedrock, to try the properties on: the
\* BEDROCK branch is never taken.
mode_is_bedrock_never(body) == FALSE

\* The test of the branch that returns PENDING at once.
mode_is_bedrock(body) == body["mode"] = Str("BEDROCK")

\* Up to and including put_item.  fault: put_item raised ClientError.
fit_create_begin(event, fault) ==
    LET uid == get_user_id(event)
    IN  IF uid.exc # "none"
        THEN [pc |-> "return", drew |-> FALSE, fits |-> fits, store_ops |-> <<>>,
              response |-> handler_except(uid.exc, "DYNAMODB_ERROR",
                                          "Failed to create fit job")]
        ELSE IF ~event.body.json
        THEN [pc |-> "return", drew |-> FALSE, fits |-> fits, store_ops |-> <<>>,
              response |-> create_error_response(400, "INVALID_JSON",
                                                 <<"Request body must be valid JSON">>)]
        ELSE LET v == fit_validate(event.body.obj)
             IN  IF ~v.ok
                 THEN [pc |-> "return", drew |-> FALSE, fits |-> fits,
                       store_ops |-> <<>>, response |-> v.response]
                 ELSE LET fit_id   == uuid4
                          fit_data == fit_data_of(fit_id, uid.val, event.body.obj,
                                                  get_current_timestamp)
                          op == [op |-> "put_item", table |-> "fits",
                                 fitId |-> fit_id, ok |-> ~fault]
                      IN  IF fault
                          THEN [pc |-> "return", drew |-> TRUE, fits |-> fits,
                                store_ops |-> <<op>>,
                                response |-> handler_except("ClientError",
                                    "DYNAMODB_ERROR", "Failed to create fit job")]
                          ELSE IF mode_is_bedrock(event.body.obj)
                          THEN [pc |-> "return", drew |-> TRUE,
                                fits |-> fit_put_item(fits, fit_data),
                                store_ops |-> <<op>>,
                                response |-> create_response(201,
                                    [fitId |-> fit_id, status |-> "PENDING"])]
                          ELSE [pc |-> "fit_update_ready", drew |-> TRUE,
                                fits |-> fit_put_item(fits, fit_data),
                                store_ops |-> <<op>>,
                                locals |-> [pc |-> "fit_update_ready",
                                            event |-> event,
                                            user_id |-> uid.val,
                                            fit_id |-> fit_id,
                                            store_ops |-> <<op>>]]

fit_create_handler ==
    \E event \in FitCreateEvents, fault \in BOOLEAN, p \in Procs :
        LET b == fit_create_begin(event, fault)
        IN  /\ nreq < MaxReq
            /\ Routed("fit_create_handler")
            /\ b.drew => uuids < MaxUuid
            /\ nreq' = nreq + 1
            /\ uuids' = IF b.drew THEN uuids + 1 ELSE uuids
            /\ fits' = b.fits
            /\ IF b.pc = "return"
               THEN /\ p = 1
                    /\ Return("fit_create_handler", event, b.response, b.store_ops, <<>>)
                    /\ UNCHANGED procs
               ELSE /\ FreeSlot(p)
                    /\ procs' = [procs EXCEPT ![p] = b.locals]
                    /\ UNCHANGED last
            /\ everReady' = EverReadyAfter(b.fits)
            /\ UNCHANGED <<profiles, cart, now, cartHist, replaced>>

\* The try block of the MVP_COMPOSITE branch.  fault: update_item raised
\* ClientError, which the block's except Exception catches.
fit_create_ready ==
    \E p \in Procs, fault \in BOOLEAN :
        LET l  == procs[p]
            op == [op |-> "update_item", table |-> "fits", fitId |-> l.fit_id,
                   status |-> "READY", ok |-> ~fault]
        IN  /\ l.pc = "fit_update_ready"
            /\ IF fault
               THEN /\ procs' = [procs EXCEPT ![p] =
                                    [l EXCEPT !.pc = "fit_update_failed",
                                              !.store_ops = Append(@, op)]]
                    /\ UNCHANGED <<fits, everReady, last>>
               ELSE /\ fits' = fit_update_ready(fits, l.fit_id,
                                   generated_key_of(l.user_id, l.fit_id),
                                   get_current_timestamp)
                    /\ everReady' = EverReadyAfter(fits')
                    /\ procs' = [procs EXCEPT ![p] = Idle]
                    /\ Return("fit_create_handler", l.event,
                              create_response(201, [fitId |-> l.fit_id,
                                                    status |-> "READY"]),
                              Append(l.store_ops, op), <<>>)
            /\ UNCHANGED <<profiles, cart, now, uuids, cartHist, nreq, request,
                           replaced>>

\* The except block of the MVP_COMPOSITE branch.  fault: its update_item
\* raised ClientError, which the handler's outer except ClientError catches.
fit_create_failed ==
    \E p \in Procs, fault \in BOOLEAN :
        LET l  == procs[p]
            op == [op |-> "update_item", table |-> "fits", fitId |-> l.fit_id,
                   status |-> "FAILED", ok |-> ~fault]
        IN  /\ l.pc = "fit_update_failed"
            /\ procs' = [procs EXCEPT ![p] = Idle]
            /\ IF fault
               THEN /\ Return("fit_create_handler", l.event,
                              handler_except("ClientError", "DYNAMODB_ERROR",
                                             "Failed to create fit job"),
                              Append(l.store_ops, op), <<>>)
                    /\ UNCHANGED <<fits, everReady>>
               ELSE /\ fits' = fit_update_failed(fits, l.fit_id, get_current_timestamp)
                    /\ everReady' = EverReadyAfter(fits')
                    /\ Return("fit_create_handler", l.event,
                              create_error_response(500, "GENERATION_FAILED",
                                                    <<"Failed to generate fit">>),
                              Append(l.store_ops, op), <<>>)
            /\ UNCHANGED <<profiles, cart, now, uuids, cartHist, nreq, request,
                           replaced>>

(***************************************************************************)
(* 6. GET /fit/{fitId}                                                     *)
(***************************************************************************)
FitIds == {[uuid |-> i] : i \in 1..MaxUuid}

FitGetEvents ==
    {[claims |-> c, pathParameters |-> [fitId |-> f]] :
        c \in AuthClaims, f \in FitIds \cup {Str("")}}
    \cup {[claims |-> c, pathParameters |-> [fitId |-> [uuid |-> 1]]] :
            c \in Claims \ AuthClaims}

\* A faulty variant of get_item, to try the properties on: the key is not
\* used, any item is returned.
get_item_any(table, fit_id) ==
    IF table = {} THEN [none |-> TRUE] ELSE [Item |-> CHOOSE r \in table : TRUE]

\* table.get_item(Key={'fitId': fit_id}): the response, with Item if found.
get_item(table, fit_id) ==
    LET hit == {r \in table : r.fitId = fit_id}
    IN  IF hit = {} THEN [none |-> TRUE] ELSE [Item |-> CHOOSE r \in hit : TRUE]

\* A faulty variant of fit_owner_differs, to try the properties on: the
\* item's user_id is compared with itself.
fit_owner_differs_self(fit_item, user_id) == fit_item.user_id # fit_item.user_id

\* The ownership test of fit_get_handler.
fit_owner_differs(fit_item, user_id) == fit_item.user_id # user_id

\* The test that guards both presigned download URLs.
fit_has_image(item) == item.status = "READY" /\ "imageUrl" \in DOMAIN item

\* fault: get_item raised ClientError; presign: what generate_presigned_url
\* did, if called.  Its try catches ClientError only.
fit_get_result(event, fault, presign) ==
    LET uid    == get_user_id(event)
        fit_id == event.pathParameters.fitId
        op     == [op |-> "get_item", table |-> "fits", fitId |-> fit_id, ok |-> ~fault]
    IN  IF uid.exc # "none"
        THEN [response |-> handler_except(uid.exc, "DYNAMODB_ERROR", "Failed to retrieve fit"),
              store_ops |-> <<>>, url_ops |-> <<>>]
        ELSE IF fit_id = Str("")
        THEN [response |-> create_error_response(400, "MISSING_PARAMETER",
                                                 <<"fitId is required">>),
              store_ops |-> <<>>, url_ops |-> <<>>]
        ELSE IF fault
        THEN [response |-> handler_except("ClientError", "DYNAMODB_ERROR",
                                          "Failed to retrieve fit"),
              store_ops |-> <<op>>, url_ops |-> <<>>]
        ELSE LET got == get_item(fits, fit_id)
             IN  IF "Item" \notin DOMAIN got
                 THEN [response |-> create_error_response(404, "FIT_NOT_FOUND",
                                                          <<"Fit not found">>),
                       store_ops |-> <<op>>, url_ops |-> <<>>]
                 ELSE IF fit_owner_differs(got.Item, uid.val)
                 THEN [response |-> create_error_response(403, "FORBIDDEN",
                                        <<"Access denied to this fit">>),
                       store_ops |-> <<op>>, url_ops |-> <<>>]
                 ELSE LET fit_item == got.Item
                          uop == [op |-> "get_object", Key |-> fit_item.imageUrl,
                                  ExpiresIn |-> 3600]
                          data == [fitId |-> fit_item.fitId,
                                   status |-> fit_item.status,
                                   items |-> fit_item.items,
                                   createdAt |-> fit_item.createdAt,
                                   updatedAt |-> fit_item.updatedAt,
                                   imageUrl |->
                                       IF fit_has_image(fit_item) /\ presign = "url"
                                       THEN [signed |-> uop] ELSE [null |-> TRUE]]
                      IN  IF fit_has_image(fit_item)
                             /\ presign \notin {"url", "ClientError"}
                          THEN [response |-> handler_except(presign, "DYNAMODB_ERROR",
                                                            "Failed to retrieve fit"),
                                store_ops |-> <<op>>, url_ops |-> <<uop>>]
                          ELSE [response |-> create_response(200,
                                                IF "name" \in DOMAIN fit_item
                                                THEN With(data, "name", fit_item.name)
                                                ELSE data),
                                store_ops |-> <<op>>,
                                url_ops |-> IF fit_has_image(fit_item)
                                            THEN <<uop>> ELSE <<>>]

fit_get_handler ==
    \E event \in FitGetEvents, fault \in BOOLEAN, presign \in PresignOutcomes :
        LET r == fit_get_result(event, fault, presign)
        IN  /\ nreq < MaxReq
            /\ Routed("fit_get_handler")
            /\ nreq' = nreq + 1
            /\ Return("fit_get_handler", event, r.response, r.store_ops, r.url_ops)
            /\ UNCHANGED <<profiles, cart, fits, now, uuids, procs, everReady, cartHist,
                           replaced>>

(***************************************************************************)
(* 7. GET /fits                                                            *)
(***************************************************************************)
fits_list_limit == 20

FitsListEvents == {[claims |-> c] : c \in Claims}

\* The orders in which the index may deliver a set of items: createdAt
\* descending (ScanIndexForward=False), equal createdAt in either order.
RECURSIVE newest_first(_)
newest_first(items) ==
    IF items = {} THEN {<<>>}
    ELSE UNION {{<<r>> \o rest : rest \in newest_first(items \ {r})} :
                   r \in {x \in items : \A o \in items : o.createdAt <= x.createdAt}}

\* A faulty variant of fits_query, to try the properties on: the key
\* condition is dropped, the items of every user are delivered.
fits_query_any_user(table, user_id) ==
    {SubSeq(all, 1, IF Len(all) < fits_list_limit THEN Len(all) ELSE fits_list_limit) :
        all \in newest_first(table)}

\* A faulty variant of fits_query, to try the properties on: Limit is not
\* passed.
fits_query_unlimited(table, user_id) ==
    newest_first({r \in table : r.user_id = user_id})

\* table.query(IndexName='UserFitsByDate-Index', user_id = :user_id,
\*             ScanIndexForward=False, Limit=20): the possible Items.
fits_query(table, user_id) ==
    {SubSeq(all, 1, IF Len(all) < fits_list_limit THEN Len(all) ELSE fits_list_limit) :
        all \in newest_first({r \in table : r.user_id = user_id})}

\* '.jpg' -> '_thumb.jpg' in the image key.
thumbnail_key_of(image_key) ==
    IF image_key.suffix = ".jpg" THEN [image_key EXCEPT !.suffix = "_thumb.jpg"]
    ELSE image_key

\* The summary of one item; presign_fails: generate_presigned_url raised
\* ClientError for this item.
fit_summary_of(item, presign_fails) ==
    LET base == [fitId |-> item.fitId, createdAt |-> item.createdAt,
                 status |-> item.status,
                 thumbnailUrl |->
                     IF fit_has_image(item) /\ ~presign_fails
                     THEN [signed |-> [op |-> "get_object",
                                       Key |-> thumbnail_key_of(item.imageUrl),
                                       ExpiresIn |-> 3600]]
                     ELSE [null |-> TRUE]]
    IN  IF "name" \in DOMAIN item THEN With(base, "name", item.name) ELSE base

\* The presigner calls of one listing, in order.
RECURSIVE thumbnail_ops(_)
thumbnail_ops(items) ==
    IF items = <<>> THEN <<>>
    ELSE (IF fit_has_image(Head(items))
          THEN <<[op |-> "get_object", Key |-> thumbnail_key_of(Head(items).imageUrl),
                  ExpiresIn |-> 3600]>>
          ELSE <<>>) \o thumbnail_ops(Tail(items))

\* The items up to and including the first one with an image whose fit id
\* is in `aborting`, or all of them.
RECURSIVE up_to_aborting(_, _)
up_to_aborting(items, aborting) ==
    IF items = <<>> THEN <<>>
    ELSE IF fit_has_image(Head(items)) /\ Head(items).fitId \in aborting
    THEN <<Head(items)>>
    ELSE <<Head(items)>> \o up_to_aborting(Tail(items), aborting)

\* fault: query raised ClientError; items: what the query delivered;
\* failing: the fit ids for which generate_presigned_url raised ClientError,
\* which the loop's try catches; aborting: those for which it raised
\* another exception, which ends the loop.
fits_list_result(event, fault, items, failing, aborting) ==
    LET uid == get_user_id(event)
    IN  IF uid.exc # "none"
        THEN [response |-> handler_except(uid.exc, "DYNAMODB_ERROR",
                                          "Failed to retrieve fits"),
              store_ops |-> <<>>, url_ops |-> <<>>]
        ELSE LET op == [op |-> "query", table |-> "fits", user_id |-> uid.val,
                        ok |-> ~fault]
             IN  IF fault
                 THEN [response |-> handler_except("ClientError", "DYNAMODB_ERROR",
                                                   "Failed to retrieve fits"),
                       store_ops |-> <<op>>, url_ops |-> <<>>]
                 ELSE IF \E i \in 1..Len(items) :
                            fit_has_image(items[i]) /\ items[i].fitId \in aborting
                 THEN [response |-> handler_except("BotoCoreError", "DYNAMODB_ERROR",
                                                   "Failed to retrieve fits"),
                       store_ops |-> <<op>>,
                       url_ops |-> thumbnail_ops(up_to_aborting(items, aborting))]
                 ELSE [response |-> create_response(200,
                          [fits |-> [i \in 1..Len(items) |->
                                        fit_summary_of(items[i],
                                                       items[i].fitId \in failing)]]),
                       store_ops |-> <<op>>, url_ops |-> thumbnail_ops(items)]

fits_list_handler ==
    \E event \in FitsListEvents, fault \in BOOLEAN,
       failing \in SUBSET FitIds, aborting \in SUBSET FitIds :
        \E items \in fits_query(fits, ActorOf(event)) :
            LET r == fits_list_result(event, fault, items, failing, aborting)
            IN  /\ nreq < MaxReq
                /\ failing \cap aborting = {}
                /\ Routed("fits_list_handler")
                /\ nreq' = nreq + 1
                /\ Return("fits_list_handler", event, r.response, r.store_ops,
                          r.url_ops)
                /\ UNCHANGED <<profiles, cart, fits, now, uuids, procs, everReady,
                               cartHist, replaced>>

(***************************************************************************)
(* Listing many jobs.  The fits table after n successful MVP_COMPOSITE     *)
(* creations by u1 and m by u2: job i was created at time i, except that   *)
(* jobs 1 and 2 were created at the same time, and every job is READY with *)
(* its image key.  From such a table only GET /fits is called.             *)
(***************************************************************************)
ListedJob(user_id, i) ==
    LET fit_id == [uuid |-> i]
        ts     == IF i = 1 THEN 2 ELSE i
        body   == [items |-> List(<<FitItem>>), mode |-> Str("MVP_COMPOSITE")]
        put    == fit_put_item({}, fit_data_of(fit_id, user_id, body, ts))
    IN  CHOOSE job \in fit_update_ready(put, fit_id,
                                        generated_key_of(user_id, fit_id), ts) : TRUE

ListingTable(n, m) ==
    {ListedJob("u1", i) : i \in 1..n}
        \cup {ListedJob("u2", i) : i \in (MaxListed + 1)..(MaxListed + m)}

ListingInit ==
    /\ profiles = {}
    /\ cart = {}
    /\ \E n \in 0..MaxListed, m \in {0, 2} : fits = ListingTable(n, m)
    /\ now = MaxListed + 2
    /\ uuids = MaxListed + 2
    /\ procs = [p \in Procs |-> Idle]
    /\ last = [handler |-> "none", event |-> [claims |-> [kind |-> "absent"]],
               response |-> create_response(0, [ok |-> FALSE]),
               store_ops |-> <<>>, url_ops |-> <<>>]
    /\ everReady = {job.fitId : job \in fits}
    /\ cartHist = [k \in CartHistKeys |-> NoHist]
    /\ nreq = 0
    /\ request = [httpMethod |-> "none", resource |-> "none"]
    /\ replaced = {}

ListingNext == fits_list_handler

ListingSpec == ListingInit /\ [][ListingNext]_vars

(***************************************************************************)
(* 8. POST /token                                                          *)
(***************************************************************************)
token_required_fields == <<"code", "redirectUri", "codeVerifier">>

TokenObjects ==
    LET full == [code |-> Str("c"), redirectUri |-> Str("r"),
                 codeVerifier |-> Str("v")]
    IN  {full, Without(full, "redirectUri")}

\* The route needs no identity: the events carry no claims.
TokenEvents ==
    {[claims |-> [kind |-> "absent"], body |-> [json |-> TRUE, obj |-> o]] :
        o \in TokenObjects}
    \cup {[claims |-> [kind |-> "absent"], body |-> [json |-> FALSE]]}

\* What http.request to the Cognito token endpoint did: a reply with a
\* status and a body that is JSON or not, or an exception of urllib3.
CognitoReplies ==
    {[status |-> 200, data |-> [json |-> TRUE, obj |-> [access_token |-> "t"]]],
     [status |-> 400, data |-> [json |-> TRUE, obj |-> [error |-> "invalid_grant"]]],
     [status |-> 200, data |-> [json |-> FALSE]],
     [raised |-> "HTTPError"]}

\* The presence loop of token_handler from field i on.
RECURSIVE token_validate_from(_, _)
token_validate_from(body, i) ==
    IF i > Len(token_required_fields) THEN [ok |-> TRUE]
    ELSE IF token_required_fields[i] \notin DOMAIN body
         THEN [ok |-> FALSE, response |->
                  create_error_response(400, "MISSING_FIELD",
                      <<"Required field missing: ", token_required_fields[i]>>)]
         ELSE token_validate_from(body, i + 1)

token_result(event, reply) ==
    IF ~event.body.json
    THEN [response |-> create_error_response(400, "INVALID_JSON",
                                             <<"Request body must be valid JSON">>),
          http_ops |-> <<>>]
    ELSE LET v  == token_validate_from(event.body.obj, 1)
             op == [op |-> "POST", url |-> "/oauth2/token",
                    code |-> event.body.obj["code"]]
         IN  IF ~v.ok THEN [response |-> v.response, http_ops |-> <<>>]
             ELSE IF "raised" \in DOMAIN reply
             THEN [response |-> create_error_response(500, "INTERNAL_ERROR",
                                                      <<"Token exchange failed">>),
                   http_ops |-> <<op>>]
             ELSE IF ~reply.data.json
             THEN [response |-> create_error_response(500, "COGNITO_ERROR",
                                    <<"Invalid response from Cognito">>),
                   http_ops |-> <<op>>]
             ELSE [response |-> create_response(reply.status, reply.data.obj),
                   http_ops |-> <<op>>]

token_handler ==
    \E event \in TokenEvents, reply \in CognitoReplies :
        LET r == token_result(event, reply)
        IN  /\ nreq < MaxReq
            /\ Routed("token_handler")
            /\ nreq' = nreq + 1
            /\ Return("token_handler", event, r.response, <<>>, r.http_ops)
            /\ UNCHANGED <<profiles, cart, fits, now, uuids, procs, everReady, cartHist,
                           replaced>>

(***************************************************************************)
(* The router's own answers: 204 to OPTIONS on any resource, before the    *)
(* chain is walked, and 404 from the chain's else branch.  No handler is   *)
(* called and the claims are not read, whatever they are.                  *)
(***************************************************************************)
EmptyObject == <<>>

RouterClaims == {[kind |-> "absent"], [kind |-> "sub", sub |-> "u1"]}

lambda_handler ==
    \E method \in Methods, resource \in Resources, c \in RouterClaims :
        /\ nreq < MaxReq
        /\ is_preflight(method) \/ route(method, resource) = "NOT_FOUND"
        /\ nreq' = nreq + 1
        /\ request' = [httpMethod |-> method, resource |-> resource]
        /\ Return("lambda_handler", [claims |-> c],
                  IF is_preflight(method)
                  THEN create_response(204, EmptyObject)
                  ELSE create_error_response(404, "NOT_FOUND",
                           <<"The requested resource was not found">>),
                  <<>>, <<>>)
        /\ UNCHANGED <<profiles, cart, fits, now, uuids, procs, everReady, cartHist,
                       replaced>>

(***************************************************************************)
(* Notions the properties share.                                           *)
(***************************************************************************)
\* This step is the return of a handler invocation.
Returned ==
    \/ nreq' # nreq /\ procs' = procs
    \/ \E p \in Procs : procs[p] # Idle /\ procs'[p] = Idle

\* The authenticated user this step runs for, or "none".
StepUser ==
    IF \E p \in Procs : procs'[p] # procs[p]
    THEN LET p == CHOOSE q \in Procs : procs'[q] # procs[q]
         IN  IF procs[p] # Idle THEN procs[p].user_id ELSE procs'[p].user_id
    ELSE ActorOf(last'.event)

Caller == ActorOf(last.event)

InFlightFit(fit_id) ==
    \E p \in Procs :
        /\ procs[p].pc \in {"fit_update_ready", "fit_update_failed"}
        /\ procs[p].fit_id = fit_id

Terminal(job) == job.status \in {"READY", "FAILED"}

(***************************************************************************)
(* C1: a POST /fit with mode MVP_COMPOSITE that persisted its FitJob       *)
(* leaves it READY with an image key, or FAILED, when the handler has      *)
(* returned, whichever store writes failed: a stored MVP_COMPOSITE job is  *)
(* PENDING only while the invocation that created it is still running.     *)
(***************************************************************************)
C1_MvpNeverLeftPending ==
    \A job \in fits :
        job.mode = Str("MVP_COMPOSITE") /\ ~InFlightFit(job.fitId)
            => \/ job.status = "READY" /\ "imageUrl" \in DOMAIN job
               \/ job.status = "FAILED"

(***************************************************************************)
(* C2: every FitJob is first written PENDING; a READY or FAILED job keeps  *)
(* its status in every later step; and a job has an imageUrl attribute     *)
(* exactly if its status is or has been READY.                             *)
(***************************************************************************)
ImageUrlIffEverReady ==
    \A job \in fits : ("imageUrl" \in DOMAIN job) <=> (job.fitId \in everReady)

FitLifecycleStep ==
    /\ \A job \in fits' :
          (\A old \in fits : old.fitId # job.fitId) => job.status = "PENDING"
    /\ \A old \in fits :
          Terminal(old) =>
              \E job \in fits' : job.fitId = old.fitId /\ job.status = old.status

C2_FitLifecycle == []ImageUrlIffEverReady /\ [][FitLifecycleStep]_vars

C2_Witness ==
    /\ \E job \in fits : job.status = "READY" /\ "imageUrl" \in DOMAIN job
    /\ \E job \in fits : job.status = "FAILED" /\ "imageUrl" \notin DOMAIN job
    /\ \A p \in Procs : procs[p] = Idle


(***************************************************************************)
(* GET /fit/{fitId}: the returns of authenticated calls.                   *)
(***************************************************************************)
FitGetReturned ==
    /\ Returned
    /\ last'.handler = "fit_get_handler"
    /\ last'.event.claims.kind = "sub"

\* The stored jobs (before the call) with the id the call asks for.
AskedJobs == {job \in fits : job.fitId = last'.event.pathParameters.fitId}

AskedOfAnother == \E job \in AskedJobs : job.user_id # ActorOf(last'.event)

\* An error response: nothing of a record in it, and no URL was asked for.
BareError(l, status, error) ==
    /\ l.response.statusCode = status
    /\ l.response.body.error = error
    /\ DOMAIN l.response.body = {"error", "message"}
    /\ l.url_ops = <<>>

LookupFaulted(l) == l.store_ops # <<>> /\ ~l.store_ops[1].ok

(***************************************************************************)
(* C3, as claimed: a GET /fit/{fitId} for a stored job of another user is  *)
(* answered 403 Forbidden, with no URL issued and no field of the record.  *)
(***************************************************************************)
C3_AlwaysForbidden ==
    [][FitGetReturned /\ AskedOfAnother => BareError(last', 403, "FORBIDDEN")]_vars

(***************************************************************************)
(* C3, amended: a GET /fit/{fitId} for a stored job of another user is     *)
(* answered 403 Forbidden unless the lookup itself faults, and then 500    *)
(* DYNAMODB_ERROR; in both cases no URL is issued and no field of the      *)
(* record is in the response, whatever the job's status.                   *)
(***************************************************************************)
C3_ForbiddenUnlessLookupFaults ==
    [][FitGetReturned /\ AskedOfAnother =>
          IF LookupFaulted(last')
          THEN BareError(last', 500, "DYNAMODB_ERROR")
          ELSE BareError(last', 403, "FORBIDDEN")]_vars

C3_Witness ==
    /\ last.handler = "fit_get_handler"
    /\ last.response.statusCode = 403
    /\ \E job \in fits :
          /\ job.fitId = last.event.pathParameters.fitId
          /\ job.user_id # Caller
          /\ job.status = "READY"

(***************************************************************************)
(* C4, as claimed: a GET /fit/{fitId} for an id no stored job has is       *)
(* answered 404 FIT_NOT_FOUND.                                             *)
(***************************************************************************)
C4_AlwaysNotFound ==
    [][FitGetReturned /\ AskedJobs = {} =>
          BareError(last', 404, "FIT_NOT_FOUND")]_vars

(***************************************************************************)
(* C4, amended: a GET /fit/{fitId} for an id no stored job has is answered *)
(* 400 MISSING_PARAMETER if the id is empty, 500 DYNAMODB_ERROR if the     *)
(* lookup faults, and 404 FIT_NOT_FOUND otherwise; it is never answered    *)
(* 403, which is returned only for a job that exists.                      *)
(***************************************************************************)
C4_NotFoundNeverForbidden ==
    [][FitGetReturned =>
          /\ AskedJobs = {} =>
                IF last'.event.pathParameters.fitId = Str("")
                THEN BareError(last', 400, "MISSING_PARAMETER")
                ELSE IF LookupFaulted(last')
                THEN BareError(last', 500, "DYNAMODB_ERROR")
                ELSE BareError(last', 404, "FIT_NOT_FOUND")
          /\ last'.response.statusCode = 403 => AskedJobs # {}]_vars

C4_Witness ==
    /\ last.handler = "fit_get_handler"
    /\ last.response.statusCode = 404
    /\ fits # {}
    /\ \A job \in fits : job.fitId # last.event.pathParameters.fitId

(***************************************************************************)
(* POST /cart.                                                             *)
(***************************************************************************)
ProductKey(product) == product[1] \o <<"#">> \o product[2]

CartAt(table, user_id, item_key) ==
    {r \in table : r.user_id = user_id /\ r.item_key = item_key}

\* No POST /cart of this user for another product with the same item_key
\* has landed.
OnlyProductOnKey(user_id, product) ==
    \A other \in CartProducts :
        other # product /\ ProductKey(other) = ProductKey(product)
            => cartHist[<<user_id, other>>].n = 0

(***************************************************************************)
(* C5: after any sequence of successful POST /cart requests of one user    *)
(* for one (retailer, productId), there is exactly one item for that key;  *)
(* its addedAt is the timestamp of the first of them, its price_cents and  *)
(* updatedAt are those of the latest; and no step changes the addedAt of   *)
(* a stored item.                                                          *)
(***************************************************************************)
CartFirstSeenLaw ==
    \A user_id \in Users, product \in CartProducts :
        LET h == cartHist[<<user_id, product>>]
            items == CartAt(cart, user_id, ProductKey(product))
        IN  h.n > 0 /\ OnlyProductOnKey(user_id, product) =>
                /\ Cardinality(items) = 1
                /\ \A r \in items :
                      /\ r.retailer = Str(product[1])
                      /\ r.productId = Str(product[2])
                      /\ r.addedAt = h.first
                      /\ r.price_cents = h.price_cents
                      /\ r.updatedAt = h.updatedAt

AddedAtKept ==
    \A r \in cart :
        \E n \in cart' :
            n.user_id = r.user_id /\ n.item_key = r.item_key /\ n.addedAt = r.addedAt

C5_CartUpsert == []CartFirstSeenLaw /\ [][AddedAtKept]_vars

C5_Witness ==
    \E user_id \in Users, product \in CartProducts :
        LET h == cartHist[<<user_id, product>>]
        IN  /\ h.n > 0
            /\ OnlyProductOnKey(user_id, product)
            /\ h.first < h.updatedAt
            /\ h.price_cents = Num(1499)
            /\ \E r \in cart : r.user_id = user_id /\ r.addedAt = h.first
                                /\ r.price_cents = Num(1499)

(***************************************************************************)
(* C6: when POST /cart requests for one user and item key overlap, each    *)
(* landing write leaves exactly one item for the key, whose fields and     *)
(* updatedAt are those of the request that wrote, and whose addedAt is     *)
(* that request's timestamp if there was no item and the stored addedAt    *)
(* otherwise; so the final item is that of the write that landed last,     *)
(* with the addedAt of the write that landed first.                        *)
(***************************************************************************)
CartWriteLanded(p) ==
    /\ procs[p].pc = "cart_update_item"
    /\ procs'[p] = Idle
    /\ last'.response.statusCode = 200

CartWriteEffect(p) ==
    LET l   == procs[p]
        old == CartAt(cart, l.user_id, l.item_key)
        new == CartAt(cart', l.user_id, l.item_key)
    IN  /\ Cardinality(new) = 1
        /\ cart' \ new = cart \ old
        /\ \A r \in new :
              /\ \A i \in 1..Len(cart_required_fields) :
                    r[cart_required_fields[i]] = l.body[cart_required_fields[i]]
              /\ r.updatedAt = l.current_time
              /\ IF old = {} THEN r.addedAt = l.current_time
                 ELSE \A o \in old : r.addedAt = o.addedAt

C6_ConcurrentUpserts ==
    [][\A p \in Procs : CartWriteLanded(p) => CartWriteEffect(p)]_vars

\* Two overlapping requests for one key landed in the opposite order of
\* their timestamps.
C6_Witness ==
    /\ \A p \in Procs : procs[p] = Idle
    /\ \E r \in cart : r.updatedAt < r.addedAt

(***************************************************************************)
(* C7: a profile, cart-upsert or fit-creation request answered with a 400  *)
(* validation error issued no store operation and left every table as it   *)
(* was.                                                                    *)
(***************************************************************************)
ValidatingHandlers == {"profile_handler", "cart_post_handler", "fit_create_handler"}

C7_NoWriteBefore400 ==
    [][/\ Returned
       /\ last'.handler \in ValidatingHandlers
       /\ last'.response.statusCode = 400
       => /\ tables' = tables
          /\ last'.store_ops = <<>>]_vars

C7_Witness ==
    /\ last.handler = "profile_handler"
    /\ last.response.statusCode = 400
    /\ last.response.body.error = "INVALID_VALUE"
    /\ profiles # {}

(***************************************************************************)
(* C8: a step run for user U changes or creates only records whose         *)
(* user_id is U (and none when the caller is not authenticated), and the   *)
(* data in a response to U from GET /cart, GET /fit/{fitId} and GET /fits  *)
(* comes only from records whose user_id is U.                             *)
(***************************************************************************)
AllRecords(t) == t[1] \cup t[2] \cup t[3]

WritesOwnRecords ==
    \A r \in (AllRecords(tables') \ AllRecords(tables))
               \cup (AllRecords(tables) \ AllRecords(tables')) :
        r.user_id = StepUser

ResponseDataOwned ==
    /\ last.handler = "cart_get_handler" /\ last.response.statusCode = 200 =>
          \A i \in 1..Len(last.response.body.items) :
              last.response.body.items[i].user_id = Caller
    /\ last.handler = "fit_get_handler" /\ last.response.statusCode = 200 =>
          /\ \E job \in fits : job.fitId = last.response.body.fitId
          /\ \A job \in fits :
                job.fitId = last.response.body.fitId => job.user_id = Caller
    /\ last.handler = "fits_list_handler" /\ last.response.statusCode = 200 =>
          \A i \in 1..Len(last.response.body.fits) :
              /\ \E job \in fits : job.fitId = last.response.body.fits[i].fitId
              /\ \A job \in fits :
                    job.fitId = last.response.body.fits[i].fitId
                        => job.user_id = Caller
    /\ last.handler \in {"cart_get_handler", "fit_get_handler", "fits_list_handler"}
          /\ last.response.statusCode # 200
          => DOMAIN last.response.body = {"error", "message"}

C8_OwnRecordsOnly == []ResponseDataOwned /\ [][WritesOwnRecords]_vars

\* Another user's item is stored, and is not in the caller's listing.
C8_Witness ==
    /\ last.handler = "cart_get_handler"
    /\ last.response.statusCode = 200
    /\ last.response.body.items = <<>>
    /\ \E r \in cart : r.user_id # Caller

(***************************************************************************)
(* C9: a request during which a store operation faulted is answered 500    *)
(* with the store error code DYNAMODB_ERROR, in every handler that touches *)
(* the store, the READY and the FAILED update of fit creation included.    *)
(***************************************************************************)
C9_StoreFaultIsStoreError ==
    (\E i \in 1..Len(last.store_ops) : ~last.store_ops[i].ok) =>
        /\ last.response.statusCode = 500
        /\ last.response.body.error = "DYNAMODB_ERROR"

(***************************************************************************)
(* C10: on every authenticated route, a request whose context holds no     *)
(* verified user id, because a key of the claim path is absent or because  *)
(* an element of the path is not a mapping, is answered 401 and reaches    *)
(* neither the store nor the presigner.                                    *)
(***************************************************************************)
AuthenticatedHandlers ==
    {"upload_url_handler", "profile_handler", "cart_post_handler",
     "cart_get_handler", "fit_create_handler", "fit_get_handler",
     "fits_list_handler"}

C10_NoIdentityIs401 ==
    last.handler \in AuthenticatedHandlers /\ last.event.claims.kind # "sub" =>
        /\ last.response.statusCode = 401
        /\ last.store_ops = <<>>
        /\ last.url_ops = <<>>

(***************************************************************************)
(* POST /profile: the returns of authenticated calls with a JSON body.     *)
(***************************************************************************)
ProfileReturned ==
    /\ Returned
    /\ last'.handler = "profile_handler"
    /\ last'.event.claims.kind = "sub"
    /\ last'.event.body.json

\* Measurement i of the body is present, a number, and <= 0 or > 300.
OutOfRange(body, i) ==
    LET field == profile_required_fields[i]
    IN  /\ field \in DOMAIN body
        /\ isinstance_number(body[field])
        /\ (body[field].num <= 0 \/ body[field].num > 300)

HasOutOfRange(body) ==
    \E i \in 1..Len(profile_required_fields) : OutOfRange(body, i)

\* Measurement i of the body is absent, or is no number, or is out of range.
Unacceptable(body, i) ==
    \/ profile_required_fields[i] \notin DOMAIN body
    \/ ~isinstance_number(body[profile_required_fields[i]])
    \/ OutOfRange(body, i)

FirstUnacceptable(body) ==
    CHOOSE i \in 1..Len(profile_required_fields) :
        /\ Unacceptable(body, i)
        /\ \A j \in 1..(i - 1) : ~Unacceptable(body, j)

(***************************************************************************)
(* C11, as claimed: a POST /profile whose body has a required measurement  *)
(* <= 0 or > 300 is answered 400 INVALID_VALUE and leaves the profiles     *)
(* table unchanged, whatever the other fields are.                         *)
(***************************************************************************)
C11_AlwaysInvalidValue ==
    [][ProfileReturned /\ HasOutOfRange(last'.event.body.obj) =>
          /\ BareError(last', 400, "INVALID_VALUE")
          /\ profiles' = profiles
          /\ last'.store_ops = <<>>]_vars

(***************************************************************************)
(* C11, amended: a POST /profile whose body has a required measurement     *)
(* <= 0 or > 300 is answered 400 and leaves the profiles table unchanged;  *)
(* the error is that of the first measurement, in the order height_cm,     *)
(* weight_kg, chest_cm, waist_cm, hips_cm, inseam_cm, that is absent or    *)
(* unacceptable: MISSING_FIELD naming it if it is absent, INVALID_VALUE    *)
(* naming it otherwise.                                                    *)
(***************************************************************************)
C11_FirstBadFieldDecides ==
    [][ProfileReturned /\ HasOutOfRange(last'.event.body.obj) =>
          LET body  == last'.event.body.obj
              field == profile_required_fields[FirstUnacceptable(body)]
          IN  /\ IF field \notin DOMAIN body
                 THEN /\ BareError(last', 400, "MISSING_FIELD")
                      /\ last'.response.body.message =
                             <<"Required field missing: ", field>>
                 ELSE /\ BareError(last', 400, "INVALID_VALUE")
                      /\ last'.response.body.message =
                             <<field, " must be a positive number less than 300">>
              /\ profiles' = profiles
              /\ last'.store_ops = <<>>]_vars

\* A body with chest_cm = 0 and no height_cm was answered MISSING_FIELD,
\* with a profile stored.
C11_Witness ==
    /\ last.handler = "profile_handler"
    /\ last.event.claims.kind = "sub"
    /\ last.event.body.json
    /\ HasOutOfRange(last.event.body.obj)
    /\ last.response.body.error = "MISSING_FIELD"
    /\ profiles # {}

(***************************************************************************)
(* C12: a POST /fit whose items is an empty list is answered 400           *)
(* MISSING_FIELD or INVALID_ITEMS, and every stored FitJob has a non-empty *)
(* items list in which each element carries retailer and productId.        *)
(***************************************************************************)
C12_EmptyItemsRejected ==
    /\ \A job \in fits :
          /\ Len(job.items.list) > 0
          /\ \A i \in 1..Len(job.items.list) :
                /\ isinstance_dict(job.items.list[i])
                /\ {"retailer", "productId"} \subseteq DOMAIN job.items.list[i].obj
    /\ (/\ last.handler = "fit_create_handler"
        /\ last.event.claims.kind = "sub"
        /\ last.event.body.json
        /\ "items" \in DOMAIN last.event.body.obj
        /\ last.event.body.obj["items"] = List(<<>>))
       => /\ last.response.statusCode = 400
          /\ last.response.body.error \in {"MISSING_FIELD", "INVALID_ITEMS"}

(***************************************************************************)
(* POST /fit: the returns of authenticated calls with a valid body.        *)
(***************************************************************************)
ValidFitBody(body) ==
    /\ {"items", "mode"} \subseteq DOMAIN body
    /\ isinstance_list(body["items"])
    /\ \A i \in 1..Len(body["items"].list) :
          /\ isinstance_dict(body["items"].list[i])
          /\ {"retailer", "productId"} \subseteq DOMAIN body["items"].list[i].obj
    /\ body["mode"] \in {Str("MVP_COMPOSITE"), Str("BEDROCK")}

ValidFitReturned ==
    /\ Returned
    /\ last'.handler = "fit_create_handler"
    /\ last'.event.claims.kind = "sub"
    /\ last'.event.body.json
    /\ ValidFitBody(last'.event.body.obj)

(***************************************************************************)
(* C13: a valid POST /fit with mode BEDROCK issues exactly one store       *)
(* operation, the put_item; if it succeeds the response is 201 with the    *)
(* job's id and status PENDING, and the stored job is PENDING, owned by    *)
(* the caller and without imageUrl; and no later step of the handler       *)
(* writes the record: a stored BEDROCK job stays PENDING without imageUrl. *)
(***************************************************************************)
BedrockStaysPending ==
    \A job \in fits :
        job.mode = Str("BEDROCK") =>
            /\ job.status = "PENDING"
            /\ "imageUrl" \notin DOMAIN job
            /\ ~InFlightFit(job.fitId)

BedrockReturn ==
    ValidFitReturned /\ last'.event.body.obj["mode"] = Str("BEDROCK") =>
        /\ Len(last'.store_ops) = 1
        /\ last'.store_ops[1].op = "put_item"
        /\ last'.store_ops[1].ok =>
              /\ last'.response.statusCode = 201
              /\ last'.response.body =
                     [fitId |-> last'.store_ops[1].fitId, status |-> "PENDING"]
              /\ \E job \in fits' \ fits :
                    /\ job.fitId = last'.store_ops[1].fitId
                    /\ job.user_id = ActorOf(last'.event)
                    /\ job.status = "PENDING"
                    /\ "imageUrl" \notin DOMAIN job
                    /\ fits' = fits \cup {job}

C13_BedrockStaysPending == []BedrockStaysPending /\ [][BedrockReturn]_vars

\* A BEDROCK job was created and answered 201 PENDING, and time has passed.
C13_Witness ==
    /\ last.handler = "fit_create_handler"
    /\ last.response.statusCode = 201
    /\ last.response.body.status = "PENDING"
    /\ \E job \in fits :
          /\ job.fitId = last.response.body.fitId
          /\ job.mode = Str("BEDROCK")
          /\ job.status = "PENDING"
          /\ job.updatedAt < now

(***************************************************************************)
(* GET /cart: the returns of authenticated calls made without a cursor or  *)
(* with a cursor that encodes a key of the caller's partition, as an       *)
(* earlier page's nextCursor does, and on which the store did not fault.   *)
(***************************************************************************)
CartPageReturned ==
    /\ Returned
    /\ last'.handler = "cart_get_handler"
    /\ last'.event.claims.kind = "sub"
    /\ LET q == last'.event.queryStringParameters
       IN  "cursor" \in DOMAIN q =>
               \E k \in CartKeys : /\ k.user_id = ActorOf(last'.event)
                                    /\ q.cursor = encode_cursor(k)
    /\ ~LookupFaulted(last')

\* The caller's items that a page asked for with this request has to
\* start from, in key order: all, or those after the cursor's key.
CartRest ==
    LET q    == last'.event.queryStringParameters
        part == {r \in cart : r.user_id = ActorOf(last'.event)}
    IN  by_item_key(IF "cursor" \in DOMAIN q
                    THEN {r \in part :
                             \E k \in CartKeys : /\ q.cursor = encode_cursor(k)
                                                  /\ str_less(k.item_key, r.item_key)}
                    ELSE part)

(***************************************************************************)
(* C14: with no concurrent write, the pages of GET /cart, asked for first  *)
(* without a cursor and then with the previous page's nextCursor, return   *)
(* every item of the caller exactly once.  Page by page: each call is      *)
(* answered 200; the key handed to the store is the one the cursor         *)
(* encodes; the items returned are the first of those the caller has       *)
(* after that key, in key order and without gap; nextCursor encodes the    *)
(* key of the last item returned if items are left, and is null if none    *)
(* is left.                                                                *)
(***************************************************************************)
C14_PagesCoverCart ==
    [][CartPageReturned =>
          LET q     == last'.event.queryStringParameters
              body  == last'.response.body
              n     == Len(body.items)
          IN  /\ last'.response.statusCode = 200
              /\ "cursor" \in DOMAIN q =>
                     q.cursor = encode_cursor(last'.store_ops[1].ExclusiveStartKey)
              /\ n <= Len(CartRest)
              /\ \A i \in 1..n : /\ body.items[i].user_id = CartRest[i].user_id
                                  /\ body.items[i].item_key = CartRest[i].item_key
              /\ IF n < Len(CartRest)
                 THEN /\ n > 0
                      /\ body.nextCursor =
                             encode_cursor([user_id  |-> body.items[n].user_id,
                                            item_key |-> body.items[n].item_key])
                 ELSE body.nextCursor = [null |-> TRUE]]_vars

(***************************************************************************)
(* The router: the steps that start an invocation, and the handler run.    *)
(***************************************************************************)
Started == nreq' = nreq + 1

InvokedHandler ==
    IF \E p \in Procs : procs[p] = Idle /\ procs'[p] # Idle
    THEN LET p == CHOOSE q \in Procs : procs[q] = Idle /\ procs'[q] # Idle
         IN  IF procs'[p].pc = "cart_update_item" THEN "cart_post_handler"
             ELSE "fit_create_handler"
    ELSE last'.handler

\* The routes of the interface: method, resource, handler.
EightRoutes ==
    {<<"GET",  "/upload-url",  "upload_url_handler">>,
     <<"POST", "/profile",     "profile_handler">>,
     <<"POST", "/cart",        "cart_post_handler">>,
     <<"GET",  "/cart",        "cart_get_handler">>,
     <<"POST", "/fit",         "fit_create_handler">>,
     <<"GET",  "/fit/{fitId}", "fit_get_handler">>,
     <<"GET",  "/fits",        "fits_list_handler">>,
     <<"POST", "/token",       "token_handler">>}

\* The invocation is answered by the router itself: no handler ran, no
\* store or other service was called, nothing changed but the bookkeeping.
AnsweredByRouter ==
    /\ InvokedHandler = "lambda_handler"
    /\ last'.store_ops = <<>>
    /\ last'.url_ops = <<>>
    /\ tables' = tables
    /\ procs' = procs
    /\ uuids' = uuids

(***************************************************************************)
(* C15: a request whose method is not OPTIONS and whose (method, resource) *)
(* is one of the eight routes runs that route's handler and no other; any  *)
(* other (method, resource) is answered 404 NOT_FOUND by the router, with  *)
(* no handler run and the store untouched.                                 *)
(***************************************************************************)
C15_EightRoutes ==
    [][Started /\ request'.httpMethod # "OPTIONS" =>
          LET hit == {t \in EightRoutes : /\ t[1] = request'.httpMethod
                                          /\ t[2] = request'.resource}
          IN  IF hit # {}
              THEN \A t \in hit : InvokedHandler = t[3]
              ELSE /\ AnsweredByRouter
                   /\ BareError(last', 404, "NOT_FOUND")]_vars

\* DELETE /profile was answered 404 while a profile is stored.
C15_Witness ==
    /\ last.handler = "lambda_handler"
    /\ last.response.statusCode = 404
    /\ request = [httpMethod |-> "DELETE", resource |-> "/profile"]
    /\ profiles # {}

StandardHeaders ==
    [ContentType |-> "application/json",
     AccessControlAllowOrigin  |-> "*",
     AccessControlAllowHeaders |-> "Content-Type,Authorization",
     AccessControlAllowMethods |-> "GET,POST,PUT,DELETE,OPTIONS"]

OptionsAnswered(text) ==
    Started /\ request'.httpMethod = "OPTIONS" =>
        /\ AnsweredByRouter
        /\ last'.response.statusCode = 204
        /\ json_dumps(last'.response.body) = text
        /\ last'.response.headers = StandardHeaders

ReadPaths == {"fit_get_handler", "fits_list_handler"}

C19_UrlFailureNotFatal ==
    [][Returned =>
          /\ last'.handler \in ReadPaths =>
                /\ last'.url_ops # <<>> => last'.response.statusCode = 200
                /\ \A i \in 1..Len(last'.url_ops) :
                      \E job \in fits :
                          /\ job.status = "READY"
                          /\ "imageUrl" \in DOMAIN job
                          /\ last'.url_ops[i].Key \in
                                 {job.imageUrl, thumbnail_key_of(job.imageUrl)}
          /\ last'.handler = "fits_list_handler" /\ last'.response.statusCode = 200 =>
                \A i \in 1..Len(last'.response.body.fits) :
                    \E job \in fits :
                        /\ job.fitId = last'.response.body.fits[i].fitId
                        /\ job.createdAt = last'.response.body.fits[i].createdAt
                        /\ job.status = last'.response.body.fits[i].status
          /\ (/\ last'.handler = "upload_url_handler"
              /\ last'.url_ops # <<>>
              /\ "url" \notin DOMAIN last'.response.body)
             => last'.response.statusCode = 500]_vars

(***************************************************************************)
(* C17: a GET /fits answered 200 lists at most 20 jobs, all of them the    *)
(* caller's and none twice: 20 if the caller owns 20 or more, all the      *)
(* caller's jobs otherwise; they are in descending order of creation time, *)
(* and no job of the caller that is left out was created later than a job  *)
(* that is listed.                                                         *)
(***************************************************************************)
FitsListed ==
    /\ Returned
    /\ last'.handler = "fits_list_handler"
    /\ last'.event.claims.kind = "sub"
    /\ last'.response.statusCode = 200

C17_NewestTwenty ==
    [][FitsListed =>
          LET listed == last'.response.body.fits
              own    == {job \in fits : job.user_id = ActorOf(last'.event)}
          IN  /\ Len(listed) <= 20
              /\ Len(listed) = IF Cardinality(own) < 20 THEN Cardinality(own) ELSE 20
              /\ \A i \in 1..Len(listed) :
                    \E job \in own : /\ job.fitId = listed[i].fitId
                                     /\ job.createdAt = listed[i].createdAt
              /\ \A i, j \in 1..Len(listed) :
                    i < j => /\ listed[i].fitId # listed[j].fitId
                             /\ listed[i].createdAt >= listed[j].createdAt
              /\ \A job \in own :
                    (\A i \in 1..Len(listed) : listed[i].fitId # job.fitId) =>
                        \A i \in 1..Len(listed) :
                            job.createdAt <= listed[i].createdAt]_vars

\* A caller who owns more than 20 jobs was listed 20 of them.
C17_Witness ==
    /\ last.handler = "fits_list_handler"
    /\ last.response.statusCode = 200
    /\ Len(last.response.body.fits) = 20
    /\ Cardinality({job \in fits : job.user_id = Caller}) > 20

(***************************************************************************)
(* C18: a POST /profile answered 200 leaves exactly one profile of the     *)
(* caller, made of the caller's id, the time of the request, and the       *)
(* measurements, preferred_fit and avatar_key of this request's body and   *)
(* of nothing else: no attribute of the profile it replaces survives, an   *)
(* avatar_key in particular.  The response carries that record, and the    *)
(* profiles of other users are as they were.                               *)
(***************************************************************************)
ProfileFields ==
    {profile_required_fields[i] : i \in 1..Len(profile_required_fields)}
        \cup {"preferred_fit", "avatar_key"}

C18_FullReplace ==
    [][(/\ Returned
        /\ last'.handler = "profile_handler"
        /\ last'.response.statusCode = 200) =>
          LET body   == last'.event.body.obj
              user   == ActorOf(last'.event)
              mine   == {r \in profiles' : r.user_id = user}
              given  == DOMAIN body \cap ProfileFields
          IN  /\ Cardinality(mine) = 1
              /\ \A r \in mine :
                    /\ DOMAIN r = {"user_id", "updatedAt"} \cup given
                    /\ \A f \in given : r[f] = body[f]
                    /\ r.updatedAt = now
                    /\ last'.response.body = [ok |-> TRUE, profile |-> r]
              /\ {r \in profiles' : r.user_id # user}
                     = {r \in profiles : r.user_id # user}]_vars

\* A profile with an avatar_key was replaced by one without.
C18_Witness ==
    /\ last.handler = "profile_handler"
    /\ last.response.statusCode = 200
    /\ \E old \in replaced :
          /\ old.user_id = Caller
          /\ "avatar_key" \in DOMAIN old
          /\ \E r \in profiles : r.user_id = Caller /\ "avatar_key" \notin DOMAIN r

(***************************************************************************)
(* C20: successful POST /cart requests of one user for different           *)
(* (retailer, productId) pairs write different records: every product for  *)
(* which a request of the user has succeeded has its own item in the       *)
(* user's cart.                                                            *)
(***************************************************************************)
C20_OneItemPerProduct ==
    \A user_id \in Users, product \in CartProducts :
        cartHist[<<user_id, product>>].n > 0 =>
            \E r \in cart : /\ r.user_id = user_id
                            /\ r.retailer = Str(product[1])
                            /\ r.productId = Str(product[2])

(***************************************************************************)
(* C21: the response of POST /fit agrees with the store when the handler   *)
(* returns: a 201 with status S and fitId F while a job F of the caller    *)
(* with status S is stored; a 500 GENERATION_FAILED while the request's    *)
(* job is stored FAILED; and after any other response the store holds no   *)
(* job of this request.                                                    *)
(***************************************************************************)
FitCreateReturned == Returned /\ last'.handler = "fit_create_handler"

\* The jobs in the store that this request's put_item wrote.
JobsOfRequest ==
    {job \in fits' :
        \E i \in 1..Len(last'.store_ops) :
            /\ last'.store_ops[i].op = "put_item"
            /\ last'.store_ops[i].fitId = job.fitId}

FitCreated == last'.response.statusCode = 201

GenerationFailed ==
    /\ last'.response.statusCode = 500
    /\ last'.response.body.error = "GENERATION_FAILED"

CreatedAgrees ==
    FitCreateReturned /\ FitCreated =>
        \E job \in JobsOfRequest :
            /\ job.fitId = last'.response.body.fitId
            /\ job.user_id = ActorOf(last'.event)
            /\ job.status = last'.response.body.status

GenerationFailedAgrees ==
    FitCreateReturned /\ GenerationFailed =>
        /\ JobsOfRequest # {}
        /\ \A job \in JobsOfRequest : job.status = "FAILED"

OtherResponseLeavesNoJob ==
    FitCreateReturned /\ ~FitCreated /\ ~GenerationFailed => JobsOfRequest = {}

C21_ResponseAgreesWithStore ==
    [][CreatedAgrees /\ GenerationFailedAgrees /\ OtherResponseLeavesNoJob]_vars

(***************************************************************************)
(* C22: in every state of the cart table, concurrent POST /cart requests   *)
(* for one key included, every CartItem has addedAt <= updatedAt, and no   *)
(* write lowers the updatedAt of an item.                                  *)
(***************************************************************************)
AddedBeforeUpdated == \A r \in cart : r.addedAt <= r.updatedAt

UpdatedAtNeverDecreases ==
    \A old \in cart, new \in cart' :
        SameKey(old, new, {"user_id", "item_key"}) => old.updatedAt <= new.updatedAt

C22_CartTimestampsOrdered ==
    []AddedBeforeUpdated /\ [][UpdatedAtNeverDecreases]_vars

Next ==
    \/ Tick
    \/ cart_post_handler
    \/ cart_post_write
    \/ cart_get_handler
    \/ fit_create_handler
    \/ fit_create_ready
    \/ fit_create_failed
    \/ fit_get_handler
    \/ fits_list_handler
    \/ upload_url_handler
    \/ profile_handler
    \/ token_handler
    \/ lambda_handler

Spec == Init /\ [][Next]_vars
====
